---- MODULE Spec2Model ----
(***************************************************************************)
(* Model of the pairing generator of Coordy-Outside-Option-Game            *)
(* (generate_player_pairs/source/generate_pairing.py) and of its outcome   *)
(* generator (generate_layout_outcomes/source/generate_outcomes.py).       *)
(*                                                                         *)
(* Seven specifications share one set of variables:                        *)
(*   Spec       a call of generate_pairing_json(player_ids, rounds,        *)
(*              block_size, team_map, seed, layouts_override), one step    *)
(*              per iteration of its round loop;                           *)
(*   SpecBlock  a call of make_block_matching(player_ids, rng,             *)
(*              prev_block_sig, max_tries);                                *)
(*   SpecTeams  a call of assign_teams(player_ids, red_prop, rng);         *)
(*   SpecMain   a run of main(), the command-line program, which calls     *)
(*              assign_teams, write_players_output and then                *)
(*              generate_pairing_json;                                     *)
(*   SpecTwice  two runs of main() on the same command line, with a seed;  *)
(*   SpecPlayers   a call of write_players_output(players_input,           *)
(*              team_map);                                                 *)
(*   SpecOutcomes  a call of build_outcomes(image_map, default_p1,         *)
(*              default_p2).                                               *)
(*                                                                         *)
(* random.Random(seed) is modelled by the stream of draws the seed fixes:  *)
(* a draw is the permutation of positions that rng.shuffle() applies to a  *)
(* list.  The stream is an input of the run, like the seed that stands for *)
(* it: every step reads its draws from the stream, in order, and a second  *)
(* Random(seed) object made from the same seed reads the same stream again *)
(* from its start.  Random(None) is seeded from the operating system and   *)
(* delivers draws that no object before it has delivered.                  *)
(***************************************************************************)
EXTENDS Integers, Sequences, FiniteSets, TLC

VARIABLES
    pc,                  \* position of the program
    entry,               \* which entry point runs: "api", "block", "teams",
                         \* "main", "outcomes" or "players"
    err,                 \* "" or the validation error that ended the run
    player_ids,          \* the roster, a list
    rounds,              \* argument rounds
    block_size,          \* argument block_size
    red_prop,            \* numerator of red_prop, a multiple of 1/Den
    seed,                \* argument seed: "None" or a seed value
    team_map,            \* participant -> team
    layouts_override,    \* None or a layout table
    layouts,             \* generate_pairing_json: the layout table in use
    stream,              \* the draws the current Random object delivers,
                         \* in order, from its construction on
    rng,                 \* draws consumed by the current Random object
    created_at,          \* generate_pairing_json: created_at
    rounds_obj,          \* generate_pairing_json: rounds_obj, by round
    prev_sig,            \* generate_pairing_json: prev_sig (None or a set)
    current_block_pairs, \* generate_pairing_json: current_block_pairs
    r,                   \* generate_pairing_json: loop variable r
    calls,               \* log of the make_block_matching calls
    result,              \* value returned by generate_pairing_json
    players_input,       \* main: the keys of players_input.json, in order
    outdir,              \* main: TRUE once the output directory is made
    files,               \* main: the output files written so far
    clock,               \* reads of the wall clock so far
    err_ids,             \* the identifiers the validation error names
    first_run,           \* None, or the outputs of the run before this one
    image_map,           \* build_outcomes: (x, y) -> image URL
    default_p1,          \* build_outcomes: argument default_p1
    default_p2,          \* build_outcomes: argument default_p2
    outcomes,            \* None, or the value returned by build_outcomes
    players_info,        \* the content of players_input.json, by key
    players_output,      \* None, or the value returned by write_players_output
    max_tries            \* make_block_matching: argument max_tries

vars == <<pc, entry, err, player_ids, rounds, block_size, red_prop, seed,
          team_map, layouts_override, layouts, stream, rng, created_at,
          rounds_obj, prev_sig, current_block_pairs, r, calls, result,
          players_input, outdir, files, clock, err_ids, first_run, image_map,
          default_p1, default_p2, outcomes, players_info, players_output,
          max_tries>>

-----------------------------------------------------------------------------
(* Bounds of the exploration.                                              *)

\* rounds ranges over 0..MaxRounds
MaxRounds == 3
\* block_size ranges over 0..MaxBlockSize
MaxBlockSize == 2
\* A call of make_block_matching alone is explored for every max_tries from
\* -1 to MaxTries, on every stream, and for the default max_tries
MaxTries == 3
\* red_prop ranges over the multiples of 1/Den from -1/Den to 1 + 1/Den
Den == 4

\* The rosters explored: lists of unique identifiers of every size up to 4,
\* and a list that names one participant twice.
Rosters ==
    { <<>>, <<"A">>, <<"A", "B">>, <<"A", "B", "C">>,
      <<"A", "B", "C", "D">>, <<"A", "A">> }

\* The player files main is run on (the keys of players_input.json).
PlayerFiles ==
    { <<>>, <<"A">>, <<"A", "B">>, <<"A", "B", "C">> }

Ids == {"A", "B", "C", "D"}
Team == {"red", "blue"}
Seeds == {"None", "s123"}

\* Option values: None, or Some(x).
None == <<>>
Some(x) == <<x>>

\* The number of streams explored grows with the factorial of the roster
\* size and, for rosters with more than one matching, with max_tries for
\* every block after the first.  Rosters of up to two are explored for up
\* to three blocks, rosters of three for up to two blocks of up to three
\* rounds, larger ones for one block.
NumBlocks(nrounds, bsize) == (nrounds + bsize - 1) \div bsize
Explored(ids, nrounds, bsize) ==
    IF bsize < 1 THEN TRUE
    ELSE IF Len(ids) <= 2 THEN NumBlocks(nrounds, bsize) <= 3
    ELSE IF Len(ids) = 3 THEN NumBlocks(nrounds, bsize) <= 2 /\ nrounds <= 3
    ELSE NumBlocks(nrounds, bsize) <= 1

-----------------------------------------------------------------------------
(* Helpers.                                                                *)

Range(s) == { s[i] : i \in DOMAIN s }

Min(a, b) == IF a < b THEN a ELSE b
Max(a, b) == IF a > b THEN a ELSE b

\* The permutations of the positions 1..n: what rng.shuffle can do to a
\* list of length n.
PermsOf ==
    [ n \in 0..Cardinality(Ids) |->
        { p \in [1..n -> 1..n] : \A i, j \in 1..n : p[i] = p[j] => i = j } ]
Perms(n) == PermsOf[n]

\* rng.shuffle(ids) with the draw p.
Shuffle(ids, p) == [ i \in 1..Len(ids) |-> ids[p[i]] ]

\* round(a / b) for b > 0 as Python 3 rounds: to the nearest integer, a tie
\* going to the even neighbour.
PyRound(a, b) ==
    LET q == a \div b
        m == a % b
    IN  IF 2 * m < b THEN q
        ELSE IF 2 * m > b THEN q + 1
        ELSE IF q % 2 = 0 THEN q ELSE q + 1

\* str(d) for a decimal digit d.
Digit(d) ==
    CASE d = 0 -> "0" [] d = 1 -> "1" [] d = 2 -> "2" [] d = 3 -> "3"
      [] d = 4 -> "4" [] d = 5 -> "5" [] d = 6 -> "6" [] d = 7 -> "7"
      [] d = 8 -> "8" [] d = 9 -> "9"

\* f"pair_{idx:03d}" for idx in 0..999.
PairKey(idx) ==
    "pair_" \o Digit(idx \div 100) \o Digit((idx \div 10) % 10) \o Digit(idx % 10)

\* f"{base_layout}_{suffix}" for a one-digit suffix.
LayoutIdOf(base_layout, suffix) == base_layout \o "_" \o Digit(suffix)

-----------------------------------------------------------------------------
(* Layouts and teams.                                                      *)

LayoutSpec(id, pr, pb) ==
    [layout_id |-> id, position_red |-> pr, position_blue |-> pb]

build_default_layouts ==
    [ k \in {"red_red", "red_blue", "blue_blue"} |->
        CASE k = "red_red" -> LayoutSpec("red_red", 1, 2)
          [] k = "red_blue" -> LayoutSpec("red_blue", 1, 2)
          [] k = "blue_blue" -> LayoutSpec("blue_blue", 1, 2) ]

\* An empty table passed as layouts_override.
EmptyLayouts == [ k \in {} |-> LayoutSpec("", 0, 0) ]

\* A table a caller may pass as layouts_override: other ids, seats swapped.
CustomLayouts ==
    [ k \in {"red_red", "red_blue", "blue_blue"} |->
        CASE k = "red_red" -> LayoutSpec("rr", 2, 1)
          [] k = "red_blue" -> LayoutSpec("rb", 2, 1)
          [] k = "blue_blue" -> LayoutSpec("bb", 2, 1) ]

\* n_red computed by truncation, int(red_prop * n), instead of round().
NRedTruncated(num, n) == Max(0, Min(n, (num * n) \div Den))

\* n_red of assign_teams: round(red_prop * n) clamped to 0..n.
NRed(num, n) == Max(0, Min(n, PyRound(num * n, Den)))

\* assign_teams after its range check, with the draw p: the dict built by
\* the loop over the shuffled list (a later entry of the same id replaces
\* an earlier one).
AssignTeams(ids, num, p) ==
    LET players == Shuffle(ids, p)
        n == Len(players)
        n_red == NRed(num, n)
        last(pid) ==
            CHOOSE i \in 1..n :
                players[i] = pid /\ \A j \in (i + 1)..n : players[j] # pid
    IN  [ pid \in Range(players) |->
            IF last(pid) - 1 < n_red THEN "red" ELSE "blue" ]

\* pick_base_layout_and_positions without the swap of a (blue, red) pair.
PickKeepOrder(p1, p2, tmap, lay) ==
    LET t1 == tmap[p1]
        t2 == tmap[p2]
    IN  IF t1 = "red" /\ t2 = "red"
        THEN <<lay["red_red"].layout_id, p1, p2, 1, 2>>
        ELSE IF t1 = "blue" /\ t2 = "blue"
        THEN <<lay["blue_blue"].layout_id, p1, p2, 1, 2>>
        ELSE <<lay["red_blue"].layout_id, p1, p2,
               lay["red_blue"].position_red, lay["red_blue"].position_blue>>

\* pick_base_layout_and_positions choosing the same-team layouts by the
\* first participant's team alone when the second is blue.
PickByFirstTeam(p1, p2, tmap, lay) ==
    LET t1 == tmap[p1]
        t2 == tmap[p2]
    IN  IF t1 = "red" /\ t2 = "red"
        THEN <<lay["red_red"].layout_id, p1, p2, 1, 2>>
        ELSE IF t2 = "blue" /\ t1 = "red"
        THEN <<lay["red_blue"].layout_id, p1, p2,
               lay["red_blue"].position_red, lay["red_blue"].position_blue>>
        ELSE IF t1 = "blue" /\ t2 = "blue"
        THEN <<lay["blue_blue"].layout_id, p1, p2, 1, 2>>
        ELSE <<lay["blue_blue"].layout_id, p2, p1,
               lay["red_blue"].position_red, lay["red_blue"].position_blue>>

\* pick_base_layout_and_positions: <<layout id, player1, player2,
\* position1, position2>>.
PickBaseLayoutAndPositions(p1, p2, tmap, lay) ==
    LET t1 == tmap[p1]
        t2 == tmap[p2]
    IN  IF t1 = "red" /\ t2 = "red"
        THEN <<lay["red_red"].layout_id, p1, p2, 1, 2>>
        ELSE IF t1 = "blue" /\ t2 = "blue"
        THEN <<lay["blue_blue"].layout_id, p1, p2, 1, 2>>
        ELSE IF t1 = "red" /\ t2 = "blue"
        THEN <<lay["red_blue"].layout_id, p1, p2,
               lay["red_blue"].position_red, lay["red_blue"].position_blue>>
        ELSE <<lay["red_blue"].layout_id, p2, p1,
               lay["red_blue"].position_red, lay["red_blue"].position_blue>>

-----------------------------------------------------------------------------
(* Matchings.                                                              *)

\* make_random_matching stepping by 1 instead of 2: overlapping duos.
MakeOverlappingMatching(ids, p) ==
    LET s == Shuffle(ids, p)
    IN  [ k \in 1..Max(0, Len(s) - 1) |-> <<s[k], s[k + 1]>> ]

\* make_random_matching with the draw p: consecutive duos of the shuffled
\* list, the last entry dropped when the length is odd.
MakeRandomMatching(ids, p) ==
    LET s == Shuffle(ids, p)
    IN  [ k \in 1..(Len(s) \div 2) |-> <<s[2 * k - 1], s[2 * k]>> ]

\* pairs_signature: the set of unordered duos.
PairsSignature(pairs) == { {pairs[k][1], pairs[k][2]} : k \in DOMAIN pairs }

\* The loop of make_block_matching with best set by the first attempt only.
TryFromKeepFirst(ids, ds, prev, ntries, k) ==
    LET differs(i) == PairsSignature(MakeRandomMatching(ids, ds[i])) # prev
        last == Max(1, ntries)
        n == CHOOSE i \in k..last :
                /\ i = last \/ differs(i)
                /\ \A h \in k..(i - 1) : ~differs(h)
    IN  [pairs |-> MakeRandomMatching(ids, ds[IF differs(n) THEN n ELSE 1]),
         used |-> n]

\* The loop of make_block_matching from its k-th iteration on, reading the
\* draws ds[k], ds[k+1], ...: the matching returned and the number of draws
\* read.  The loop returns at the first shuffle whose signature is not the
\* previous one; when max_tries shuffles have all repeated it, the last one
\* (best) is returned, and with no iteration at all one shuffle is drawn
\* and returned.  So the shuffle returned is the n-th, n being the first
\* that differs, or the last one the call can draw when none before it
\* differs.
TryFrom(ids, ds, prev, ntries, k) ==
    LET differs(i) == PairsSignature(MakeRandomMatching(ids, ds[i])) # prev
        last == Max(1, ntries)
        n == CHOOSE i \in k..last :
                /\ i = last \/ differs(i)
                /\ \A h \in k..(i - 1) : ~differs(h)
    IN  [pairs |-> MakeRandomMatching(ids, ds[n]), used |-> n]

\* make_block_matching without the retries: the first shuffle is returned.
MakeBlockMatchingNoRetry(ids, ds, prev_block_sig, ntries) ==
    [pairs |-> MakeRandomMatching(ids, ds[1]), used |-> 1]

\* make_block_matching(player_ids, rng, prev_block_sig, max_tries), the rng
\* delivering the draws ds in order.
MakeBlockMatching(ids, ds, prev_block_sig, ntries) ==
    IF prev_block_sig = None
    THEN [pairs |-> MakeRandomMatching(ids, ds[1]), used |-> 1]
    ELSE TryFrom(ids, ds, prev_block_sig[1], ntries, 1)

\* max_tries of make_block_matching: generate_pairing_json passes none, so
\* every call has the default.
DefaultMaxTries == 200

\* The draws a Random object delivers after the first pos of the stream st.
Rest(st, pos) == SubSeq(st, pos + 1, Len(st))

\* The streams of len shuffles of lists of length n: a generator can
\* deliver any permutation at every draw.
Streams(n, len) == [1..len -> Perms(n)]

\* The shuffles a call of make_block_matching with ntries attempts can
\* read after a block whose matching came from the draw q: d - 1 shuffles
\* that repeat the pair set of q and then one that differs from it, for
\* every d up to ntries, or ntries shuffles that all repeat it.  Every
\* number of attempts and every matching the call can return occurs; the
\* shuffles that repeat the pair set are explored as copies of q.
Segments(ids, q, ntries) ==
    LET sg(p) == PairsSignature(MakeRandomMatching(ids, p))
        ends == { x \in (1..ntries) \X Perms(Len(ids)) :
                    sg(x[2]) # sg(q) \/ x[1] = ntries }
    IN  { [ i \in 1..x[1] |-> IF i < x[1] THEN q ELSE x[2] ] : x \in ends }

\* The streams explored for a schedule of nb blocks: any first shuffle,
\* then for every later block the shuffles its call can read.
RECURSIVE BlockStreams(_, _)
BlockStreams(ids, nb) ==
    IF nb <= 1 THEN Streams(Len(ids), 1)
    ELSE UNION { { s \o g : g \in Segments(ids, s[Len(s)],
                                           DefaultMaxTries) } :
                 s \in BlockStreams(ids, nb - 1) }

\* The number of blocks of a schedule, 0 when the arguments are refused.
BlocksOf(nrounds, bsize) ==
    IF nrounds < 1 \/ bsize < 1 THEN 0 ELSE NumBlocks(nrounds, bsize)

-----------------------------------------------------------------------------
(* generate_pairing_json.                                                  *)

\* The suffixes exchanged: 1 on even rounds.
SuffixSwapped(rr) == IF rr % 2 = 0 THEN 1 ELSE 2

\* The suffix of the layout id in round rr.
Suffix(rr) == IF rr % 2 = 1 THEN 1 ELSE 2

\* The record of one pair (a, b) of the block at index idx in round rr.
PairRecord(idx, a, b, rr, tmap, lay, cat) ==
    LET pick == PickBaseLayoutAndPositions(a, b, tmap, lay)
    IN  [ key |-> PairKey(idx),
          createdAt |-> cat,
          layoutId |-> LayoutIdOf(pick[1], Suffix(rr)),
          player1Id |-> pick[2],
          player2Id |-> pick[3],
          position1 |-> pick[4],
          position2 |-> pick[5],
          status |-> "pending" ]

\* pairs_obj of round rr: one record per pair, in the matching's order.
PairsObj(pairs, rr, tmap, lay, cat) ==
    [ k \in DOMAIN pairs |->
        PairRecord(k - 1, pairs[k][1], pairs[k][2], rr, tmap, lay, cat) ]

\* A validation that looks for missing participants only: a team map with
\* an unknown key passes.
GenErrorMissingOnly(ids, nrounds, bsize, tmap) ==
    IF nrounds < 1 THEN "rounds"
    ELSE IF bsize < 1 THEN "block_size"
    ELSE IF Len(ids) < 2 THEN "players"
    ELSE IF Range(ids) \ DOMAIN tmap # {} THEN "team_map_missing"
    ELSE ""

\* The validation at the head of generate_pairing_json: "" or the error.
GenError(ids, nrounds, bsize, tmap) ==
    IF nrounds < 1 THEN "rounds"
    ELSE IF bsize < 1 THEN "block_size"
    ELSE IF Len(ids) < 2 THEN "players"
    ELSE IF Range(ids) # DOMAIN tmap
    THEN IF Range(ids) \ DOMAIN tmap # {} THEN "team_map_missing"
         ELSE "team_map_unknown"
    ELSE ""

\* Lines 222-229: the identifiers the message of the error names,
\* sorted(missing) when any is missing and sorted(extra) otherwise; the
\* other messages name none.
GenErrorNames(ids, nrounds, bsize, tmap) ==
    LET e == GenError(ids, nrounds, bsize, tmap)
        missing == Range(ids) \ DOMAIN tmap
        extra == DOMAIN tmap \ Range(ids)
    IN  IF e = "team_map_missing" THEN missing
        ELSE IF e = "team_map_unknown" THEN extra
        ELSE {}

\* The draws of an object seeded from the system, made when pos draws of
\* the stream st were delivered: the draws not delivered yet come first
\* (the delivered ones are put behind them, which keeps the length).
Fresh(st, pos) == Rest(st, pos) \o SubSeq(st, 1, pos)

\* A Random object that takes its state from the system whatever the
\* seed.
ReseedFromSystem(sd, st, pos) == Fresh(st, pos)

\* random.Random(seed), lines 231 and 342: the draws the new object will
\* deliver, st being those of the object before it, which has delivered
\* pos of them.  A seed determines them: they are the same ones from the
\* start.  Without a seed the object starts from the system's entropy.
Reseed(sd, st, pos) == IF sd = "None" THEN Fresh(st, pos) ELSE st

\* Where control goes when generate_pairing_json raises or returns.
AfterRaise == "failed"
AfterReturn == IF entry = "main" THEN "save_pairing" ELSE "returned"

\* Lines 216-238: validation, then the locals before the loop.  An
\* override that is None or empty is falsy: the default table is used.
GenEnter ==
    /\ pc = "gen_enter"
    /\ LET e == GenError(player_ids, rounds, block_size, team_map)
       IN  IF e # ""
           THEN /\ pc' = AfterRaise
                /\ err' = e
                /\ err_ids' = GenErrorNames(player_ids, rounds, block_size,
                                            team_map)
                /\ UNCHANGED <<layouts, stream, rng, created_at, rounds_obj,
                               prev_sig, current_block_pairs, r, clock>>
           ELSE /\ pc' = "gen_loop"
                /\ err' = err
                /\ err_ids' = err_ids
                /\ rng' = 0
                /\ stream' = Reseed(seed, stream, rng)
                /\ layouts' = IF \/ layouts_override = None
                                 \/ DOMAIN layouts_override[1] = {}
                              THEN build_default_layouts
                              ELSE layouts_override[1]
                /\ created_at' = clock
                /\ clock' = clock + 1
                /\ rounds_obj' = <<>>
                /\ prev_sig' = None
                /\ current_block_pairs' = <<>>
                /\ r' = 1
    /\ UNCHANGED <<entry, player_ids, rounds, block_size, red_prop, seed,
                   team_map, layouts_override, calls, result, players_input,
                   outdir, files, first_run, image_map, default_p1,
                   default_p2, outcomes, players_info, players_output,
                   max_tries>>

\* A block starting one round late: at the multiples of block_size.
BlockStartsLate(rr, bsize) == rr % bsize = 0

\* Line 241: round rr starts a new block.
BlockStarts(rr, bsize) == (rr - 1) % bsize = 0

\* Lines 240-272: one iteration of the loop over the rounds.
GenRound ==
    /\ pc = "gen_loop"
    /\ r <= rounds
    /\ IF BlockStarts(r, block_size)
       THEN \E ds \in {Rest(stream, rng)} :
            \E m \in {MakeBlockMatching(player_ids, ds, prev_sig,
                                        DefaultMaxTries)} :
                /\ current_block_pairs' = m.pairs
                /\ prev_sig' = Some(PairsSignature(m.pairs))
                /\ rng' = rng + m.used
                /\ calls' = Append(calls,
                      [ round |-> r, prev |-> prev_sig,
                        draws |-> SubSeq(ds, 1, m.used),
                        pairs |-> m.pairs ])
       ELSE UNCHANGED <<current_block_pairs, prev_sig, rng, calls>>
    /\ rounds_obj' = Append(rounds_obj,
          [ pairs |-> PairsObj(current_block_pairs', r, team_map, layouts,
                               created_at),
            status |-> "pending" ])
    /\ r' = r + 1
    /\ UNCHANGED <<pc, entry, err, player_ids, rounds, block_size, red_prop,
                   seed, team_map, layouts_override, layouts, stream,
                   created_at, result, players_input, outdir, files, clock,
                   err_ids, first_run, image_map, default_p1, default_p2,
                   outcomes, players_info, players_output, max_tries>>

\* Lines 274-281: the schedule is returned (include_root_metadata = True).
GenReturn ==
    /\ pc = "gen_loop"
    /\ r > rounds
    /\ result' = Some([ experimentType |-> "realtime",
                        pairingMode |-> "manual",
                        lastUpdated |-> clock,
                        rounds |-> rounds_obj ])
    /\ clock' = clock + 1
    /\ pc' = AfterReturn
    /\ UNCHANGED <<entry, err, player_ids, rounds, block_size, red_prop, seed,
                   team_map, layouts_override, layouts, stream, rng,
                   created_at, rounds_obj, prev_sig, current_block_pairs, r,
                   calls, players_input, outdir, files, err_ids, first_run,
                   image_map, default_p1, default_p2, outcomes, players_info,
                   players_output, max_tries>>

\* The team maps a caller passes for the roster ids: the first k of the
\* roster red and the others blue, for every k (the shuffles put them in
\* every order), and three maps whose keys are not the roster (one
\* participant missing, one unknown participant added, and both).
TeamMapsFor(ids) ==
    { [ p \in Range(ids) |->
          IF \E i \in 1..k : ids[i] = p THEN "red" ELSE "blue" ] :
        k \in 0..Len(ids) }
      \cup { [ p \in Range(ids) \ {ids[1]} |-> "red" ] : x \in {1} \cap DOMAIN ids }
      \cup { [ p \in Range(ids) \cup {"Z"} |-> "blue" ] : x \in {1} }
      \cup { [ p \in (Range(ids) \ {ids[1]}) \cup {"Z"} |-> "red" ] :
                x \in {1} \cap DOMAIN ids }

\* Rosters of three are explored for two blocks with the default layout
\* table.
ExploredLayouts(ids, nrounds, bsize, lo) ==
    (Len(ids) >= 3 /\ BlocksOf(nrounds, bsize) >= 2) => lo = None

\* A call of generate_pairing_json about to start.  The stream is as long
\* as the most shuffles the call can read (one when it raises).
Init ==
    /\ pc = "gen_enter"
    /\ entry = "api"
    /\ err = ""
    /\ player_ids \in Rosters
    /\ rounds \in 0..MaxRounds
    /\ block_size \in 0..MaxBlockSize
    /\ Explored(player_ids, rounds, block_size)
    /\ red_prop = 0
    /\ seed = "s123"
    /\ team_map \in TeamMapsFor(player_ids)
    /\ layouts_override \in
         {None, Some(CustomLayouts)}
           \cup (IF Len(player_ids) = 2 THEN {Some(EmptyLayouts)} ELSE {})
    /\ layouts = build_default_layouts
    /\ ExploredLayouts(player_ids, rounds, block_size, layouts_override)
    /\ stream \in BlockStreams(player_ids,
          IF GenError(player_ids, rounds, block_size, team_map) = ""
          THEN BlocksOf(rounds, block_size) ELSE 0)
    /\ rng = 0
    /\ created_at = 0
    /\ rounds_obj = <<>>
    /\ prev_sig = None
    /\ current_block_pairs = <<>>
    /\ r = 0
    /\ calls = <<>>
    /\ result = None
    /\ players_input = <<>>
    /\ outdir = FALSE
    /\ files = {}
    /\ clock = 0
    /\ err_ids = {}
    /\ first_run = None
    /\ image_map = << >>
    /\ default_p1 = 0
    /\ default_p2 = 0
    /\ outcomes = None
    /\ players_info = << >>
    /\ players_output = None
    /\ max_tries = DefaultMaxTries

Next == GenEnter \/ GenRound \/ GenReturn

Spec == Init /\ [][Next]_vars

-----------------------------------------------------------------------------
(* make_block_matching.                                                    *)

\* The signatures of the matchings of the roster ids.
Signatures(ids) ==
    { PairsSignature(MakeRandomMatching(ids, p)) : p \in Perms(Len(ids)) }

\* The number of streams grows with the factorial of the roster size and
\* with max_tries as the exponent: rosters of four are explored for
\* max_tries up to 2.
ExploredCall(ids, mt) == Len(ids) <= 3 \/ mt <= 2

\* Lines 184-200: one call of make_block_matching.  The rng delivers the
\* draws of the stream in order; the call is logged with the draws it read.
MakeBlockMatchingCall ==
    /\ pc = "block_enter"
    /\ \E ds \in {Rest(stream, rng)} :
       \E m \in {MakeBlockMatching(player_ids, ds, prev_sig, max_tries)} :
           /\ current_block_pairs' = m.pairs
           /\ rng' = rng + m.used
           /\ calls' = Append(calls,
                 [ round |-> r, prev |-> prev_sig,
                   draws |-> SubSeq(ds, 1, m.used),
                   pairs |-> m.pairs ])
    /\ pc' = "returned"
    /\ UNCHANGED <<entry, err, player_ids, rounds, block_size, red_prop, seed,
                   team_map, layouts_override, layouts, stream, created_at,
                   rounds_obj, prev_sig, r, result, players_input, outdir,
                   files, clock, err_ids, first_run, image_map, default_p1,
                   default_p2, outcomes, players_info, players_output,
                   max_tries>>

\* A call of make_block_matching about to start: a roster of at least two,
\* no previous signature or the signature of one of the roster's
\* matchings, and a freshly seeded rng.  For max_tries up to MaxTries the
\* rng's stream is any stream, as long as the most draws the call can
\* read; for the default max_tries it is any of the explored ones.
InitBlock ==
    /\ pc = "block_enter"
    /\ entry = "block"
    /\ err = ""
    /\ player_ids \in { ids \in Rosters : Len(ids) >= 2 }
    /\ max_tries \in ((0 - 1)..MaxTries) \cup {DefaultMaxTries}
    /\ ExploredCall(player_ids, max_tries)
    /\ prev_sig \in {None} \cup { Some(sg) : sg \in Signatures(player_ids) }
    /\ stream \in IF max_tries <= MaxTries
                  THEN Streams(Len(player_ids), Max(1, max_tries))
                  ELSE IF prev_sig = None
                  THEN Streams(Len(player_ids), 1)
                  ELSE UNION { Segments(player_ids, q, max_tries) :
                               q \in { p \in Perms(Len(player_ids)) :
                                         PairsSignature(MakeRandomMatching(
                                           player_ids, p)) = prev_sig[1] } }
    /\ rounds = 0
    /\ block_size = 0
    /\ red_prop = 0
    /\ seed = "s123"
    /\ team_map = << >>
    /\ layouts_override = None
    /\ layouts = build_default_layouts
    /\ rng = 0
    /\ created_at = 0
    /\ rounds_obj = <<>>
    /\ current_block_pairs = <<>>
    /\ r = 0
    /\ calls = <<>>
    /\ result = None
    /\ players_input = <<>>
    /\ outdir = FALSE
    /\ files = {}
    /\ clock = 0
    /\ err_ids = {}
    /\ first_run = None
    /\ image_map = << >>
    /\ default_p1 = 0
    /\ default_p2 = 0
    /\ outcomes = None
    /\ players_info = << >>
    /\ players_output = None

NextBlock == MakeBlockMatchingCall

SpecBlock == InitBlock /\ [][NextBlock]_vars

-----------------------------------------------------------------------------
(* assign_teams.                                                           *)

\* Where control goes when assign_teams returns.
AfterTeams == IF entry = "main" THEN "write_players" ELSE "returned"

\* Lines 134-148: the range check, then one shuffle and the team map.
AssignTeamsCall ==
    /\ pc = "teams_enter"
    /\ IF ~(0 <= red_prop /\ red_prop <= Den)
       THEN /\ pc' = AfterRaise
            /\ err' = "red_prop"
            /\ UNCHANGED <<team_map, rng>>
       ELSE /\ team_map' = AssignTeams(player_ids, red_prop,
                                       Rest(stream, rng)[1])
            /\ rng' = rng + 1
            /\ pc' = AfterTeams
            /\ err' = err
    /\ UNCHANGED <<entry, player_ids, rounds, block_size, red_prop, seed,
                   layouts_override, layouts, stream, created_at, rounds_obj,
                   prev_sig, current_block_pairs, r, calls, result,
                   players_input, outdir, files, clock, err_ids, first_run,
                   image_map, default_p1, default_p2, outcomes, players_info,
                   players_output, max_tries>>

\* A call of assign_teams about to start, the rng freshly seeded.
InitTeams ==
    /\ pc = "teams_enter"
    /\ entry = "teams"
    /\ err = ""
    /\ player_ids \in Rosters
    /\ rounds = 0
    /\ block_size = 0
    /\ red_prop \in (0 - 1)..(Den + 1)
    /\ seed = "s123"
    /\ team_map = << >>
    /\ layouts_override = None
    /\ layouts = build_default_layouts
    /\ stream \in Streams(Len(player_ids), 1)
    /\ rng = 0
    /\ created_at = 0
    /\ rounds_obj = <<>>
    /\ prev_sig = None
    /\ current_block_pairs = <<>>
    /\ r = 0
    /\ calls = <<>>
    /\ result = None
    /\ players_input = <<>>
    /\ outdir = FALSE
    /\ files = {}
    /\ clock = 0
    /\ err_ids = {}
    /\ first_run = None
    /\ image_map = << >>
    /\ default_p1 = 0
    /\ default_p2 = 0
    /\ outcomes = None
    /\ players_info = << >>
    /\ players_output = None
    /\ max_tries = DefaultMaxTries

NextTeams == AssignTeamsCall

SpecTeams == InitTeams /\ [][NextTeams]_vars

-----------------------------------------------------------------------------
(* write_players_output.                                                   *)

\* A dict is a function from its keys; the values of a player object are
\* strings, None, or a dict of strings.
EmptyDict == [ k \in {} |-> "" ]
StrVal(v) == [ kind |-> "str", s |-> v, d |-> EmptyDict ]
NoneVal == [ kind |-> "none", s |-> "", d |-> EmptyDict ]
DictVal(v) == [ kind |-> "dict", s |-> "", d |-> v ]

\* A group entry as players_input.json documents it, with one more field.
OldGroup ==
    [ k \in {"allowedRole", "name", "color", "quota"} |->
        CASE k = "allowedRole" -> "leader" [] k = "name" -> "Old"
          [] k = "color" -> "green" [] k = "quota" -> "3" ]

\* A player object with no group entry.
PlainInfo == [ k \in {"score"} |-> StrVal("7") ]

\* The player objects explored: without a group, with the group None, a
\* string, an empty dict, and a dict with the three fields and one more.
Infos ==
    { PlainInfo,
      [ k \in {"score", "group"} |->
          IF k = "score" THEN StrVal("7") ELSE NoneVal ],
      [ k \in {"score", "group"} |->
          IF k = "score" THEN StrVal("8") ELSE StrVal("solo") ],
      [ k \in {"group"} |-> DictVal(EmptyDict) ],
      [ k \in {"score", "group"} |->
          IF k = "score" THEN StrVal("9") ELSE DictVal(OldGroup) ] }

\* A group entry that keeps none of the existing fields.
NewGroupOnly(existing_group, group_name, group_color) ==
    [ k \in {"allowedRole", "name", "color"} |->
        CASE k = "allowedRole" -> ""
          [] k = "name" -> group_name
          [] k = "color" -> group_color ]

\* Lines 101-106: {**existing_group, "allowedRole": "", "name": ...,
\* "color": ...}.
NewGroup(existing_group, group_name, group_color) ==
    [ k \in DOMAIN existing_group \cup {"allowedRole", "name", "color"} |->
        CASE k = "allowedRole" -> ""
          [] k = "name" -> group_name
          [] k = "color" -> group_color
          [] OTHER -> existing_group[k] ]

\* Lines 87-108: the new player object of one participant.
NewInfo(info, team, red_group_name, blue_group_name) ==
    LET group_name == IF team = "red" THEN red_group_name
                      ELSE blue_group_name
        group_color == IF team = "red" THEN "red" ELSE "blue"
        got == IF "group" \in DOMAIN info THEN info["group"]
               ELSE DictVal(EmptyDict)
        existing_group == IF got.kind = "dict" THEN got.d ELSE EmptyDict
    IN  [ k \in DOMAIN info \cup {"group"} |->
            IF k = "group"
            THEN DictVal(NewGroup(existing_group, group_name, group_color))
            ELSE info[k] ]

\* Lines 81-110: out, when every participant has a team.
write_players_output(pinfo, tmap, red_group_name, blue_group_name) ==
    [ pid \in DOMAIN pinfo |->
        NewInfo(pinfo[pid], tmap[pid], red_group_name, blue_group_name) ]

\* Lines 70-110: a call of write_players_output with the default group
\* names: it raises at a participant with no team, and returns out
\* otherwise.  The input is only read.
WritePlayersCall ==
    /\ pc = "players_enter"
    /\ IF \E pid \in DOMAIN players_info : pid \notin DOMAIN team_map
       THEN /\ pc' = AfterRaise
            /\ err' = "player_missing"
            /\ players_output' = players_output
       ELSE /\ pc' = "returned"
            /\ err' = err
            /\ players_output' =
                  Some(write_players_output(players_info, team_map,
                                            "Group A", "Group B"))
    /\ players_info' = players_info
    /\ UNCHANGED <<entry, err_ids, player_ids, rounds, block_size, red_prop,
                   seed, team_map, layouts_override, layouts, stream, rng,
                   created_at, rounds_obj, prev_sig, current_block_pairs, r,
                   calls, result, players_input, outdir, files, clock,
                   first_run, image_map, default_p1, default_p2, outcomes,
                   max_tries>>

\* The players files explored: one or two participants.
PlayerKeys == { <<"A">>, <<"A", "B">> }

\* A call of write_players_output about to start.
InitPlayers ==
    /\ pc = "players_enter"
    /\ entry = "players"
    /\ err = ""
    /\ err_ids = {}
    /\ player_ids = <<>>
    /\ rounds = 0
    /\ block_size = 0
    /\ red_prop = 0
    /\ seed = "None"
    /\ players_input \in PlayerKeys
    /\ team_map \in TeamMapsFor(players_input)
    /\ layouts_override = None
    /\ layouts = build_default_layouts
    /\ stream = <<>>
    /\ rng = 0
    /\ created_at = 0
    /\ rounds_obj = <<>>
    /\ prev_sig = None
    /\ current_block_pairs = <<>>
    /\ r = 0
    /\ calls = <<>>
    /\ result = None
    /\ outdir = FALSE
    /\ files = {}
    /\ clock = 0
    /\ first_run = None
    /\ image_map = << >>
    /\ default_p1 = 0
    /\ default_p2 = 0
    /\ outcomes = None
    /\ players_info \in [ Range(players_input) -> Infos ]
    /\ players_output = None
    /\ max_tries = DefaultMaxTries

NextPlayers == WritePlayersCall

SpecPlayers == InitPlayers /\ [][NextPlayers]_vars

-----------------------------------------------------------------------------
(* main.                                                                   *)

\* list(dict.fromkeys(ids)): the first occurrence of every entry, in order.
Dedup(ids) ==
    LET keep == { i \in DOMAIN ids : \A j \in 1..(i - 1) : ids[j] # ids[i] }
        nth(k) == CHOOSE i \in keep : Cardinality({ j \in keep : j < i }) = k - 1
    IN  [ k \in 1..Cardinality(keep) |-> ids[nth(k)] ]

\* Lines 319-342: the output directory is made, the output paths are
\* fixed, the clock is read twice, the players file is loaded and its
\* keys are deduplicated; fewer than 2 ends the run.  Then the rng for
\* the teams is made from the seed.
MainLoad ==
    /\ pc = "main_start"
    /\ outdir' = TRUE
    /\ clock' = clock + 2
    /\ player_ids' = Dedup(players_input)
    /\ IF Len(player_ids') < 2
       THEN /\ pc' = AfterRaise
            /\ err' = "unique_players"
       ELSE /\ pc' = "teams_enter"
            /\ err' = err
    /\ stream' = Reseed(seed, stream, rng)
    /\ rng' = 0
    /\ UNCHANGED <<entry, rounds, block_size, red_prop, seed, team_map,
                   layouts_override, layouts, created_at, rounds_obj,
                   prev_sig, current_block_pairs, r, calls, result,
                   players_input, files, err_ids, first_run, image_map,
                   default_p1, default_p2, outcomes, players_info,
                   players_output, max_tries>>

\* Lines 345-365: players_output.json is built and saved, then
\* generate_pairing_json is called with the roster, the team map and the
\* same seed.
MainWritePlayers ==
    /\ pc = "write_players"
    /\ players_output' = Some(write_players_output(players_info, team_map,
                                                   "Group A", "Group B"))
    /\ files' = files \cup {"players_output"}
    /\ pc' = "gen_enter"
    /\ UNCHANGED <<entry, err, player_ids, rounds, block_size, red_prop, seed,
                   team_map, layouts_override, layouts, stream, rng,
                   created_at, rounds_obj, prev_sig, current_block_pairs, r,
                   calls, result, players_input, outdir, clock, err_ids,
                   first_run, image_map, default_p1, default_p2, outcomes,
                   players_info, max_tries>>

\* Line 366: the schedule is saved.
MainSavePairing ==
    /\ pc = "save_pairing"
    /\ files' = files \cup {"pairing"}
    /\ pc' = "save_meta"
    /\ UNCHANGED <<entry, err, player_ids, rounds, block_size, red_prop, seed,
                   team_map, layouts_override, layouts, stream, rng,
                   created_at, rounds_obj, prev_sig, current_block_pairs, r,
                   calls, result, players_input, outdir, clock, err_ids,
                   first_run, image_map, default_p1, default_p2, outcomes,
                   players_info, players_output, max_tries>>

\* Lines 368-401: the metadata is built and saved; the run is over.
MainSaveMeta ==
    /\ pc = "save_meta"
    /\ files' = files \cup {"metadata"}
    /\ pc' = "done"
    /\ UNCHANGED <<entry, err, player_ids, rounds, block_size, red_prop, seed,
                   team_map, layouts_override, layouts, stream, rng,
                   created_at, rounds_obj, prev_sig, current_block_pairs, r,
                   calls, result, players_input, outdir, clock, err_ids,
                   first_run, image_map, default_p1, default_p2, outcomes,
                   players_info, players_output, max_tries>>

\* Without a seed the team shuffle and the schedule's shuffles are
\* independent, which multiplies the streams by the factorial of the roster
\* size: rosters of three are then explored for one block.
ExploredSeed(ids, sd, nrounds, bsize) ==
    (sd = "None" /\ Len(ids) >= 3) => BlocksOf(nrounds, bsize) <= 1

\* The streams explored for a run of main: with a seed the rng of the
\* teams and the rng of the schedule deliver the same stream; without one
\* the rng of the teams delivers one shuffle and the rng of the schedule
\* goes on from there.
MainStreams(ids, sd, nb) ==
    IF sd = "None"
    THEN { <<t>> \o st : t \in Perms(Len(ids)), st \in BlockStreams(ids, nb) }
    ELSE BlockStreams(ids, nb)

\* A run of main about to start on its command line and players file.
InitMain ==
    /\ pc = "main_start"
    /\ entry = "main"
    /\ err = ""
    /\ player_ids = <<>>
    /\ players_input \in PlayerFiles
    /\ rounds \in 0..MaxRounds
    /\ block_size \in 0..MaxBlockSize
    /\ Explored(players_input, rounds, block_size)
    /\ red_prop \in (0 - 1)..(Den + 1)
    /\ seed \in Seeds
    /\ team_map = << >>
    /\ layouts_override = None
    /\ layouts = build_default_layouts
    /\ ExploredSeed(players_input, seed, rounds, block_size)
    /\ stream \in MainStreams(Dedup(players_input), seed,
                              BlocksOf(rounds, block_size))
    /\ rng = 0
    /\ created_at = 0
    /\ rounds_obj = <<>>
    /\ prev_sig = None
    /\ current_block_pairs = <<>>
    /\ r = 0
    /\ calls = <<>>
    /\ result = None
    /\ outdir = FALSE
    /\ files = {}
    /\ clock = 0
    /\ err_ids = {}
    /\ first_run = None
    /\ image_map = << >>
    /\ default_p1 = 0
    /\ default_p2 = 0
    /\ outcomes = None
    /\ players_info = [ p \in Range(players_input) |-> PlainInfo ]
    /\ players_output = None
    /\ max_tries = DefaultMaxTries

NextMain ==
    \/ MainLoad
    \/ AssignTeamsCall
    \/ MainWritePlayers
    \/ GenEnter
    \/ GenRound
    \/ GenReturn
    \/ MainSavePairing
    \/ MainSaveMeta

SpecMain == InitMain /\ [][NextMain]_vars

-----------------------------------------------------------------------------
(* Two runs of main on the same command line and players file.             *)

\* The outputs of a finished run: the team map and the schedule.
RunOutputs == [ team_map |-> team_map, pairing |-> result[1] ]

\* Lines 404-407: main is run once more with the same arguments, after a
\* run that ended well.  The files, the directory and the clock are the
\* machine's and stay; everything else starts afresh.
RunAgain ==
    /\ pc = "done"
    /\ first_run = None
    /\ first_run' = Some(RunOutputs)
    /\ pc' = "main_start"
    /\ player_ids' = <<>>
    /\ team_map' = << >>
    /\ layouts' = build_default_layouts
    /\ rng' = 0
    /\ created_at' = 0
    /\ rounds_obj' = <<>>
    /\ prev_sig' = None
    /\ current_block_pairs' = <<>>
    /\ r' = 0
    /\ calls' = <<>>
    /\ result' = None
    /\ players_output' = None
    /\ UNCHANGED <<entry, err, err_ids, rounds, block_size, red_prop, seed,
                   layouts_override, stream, players_input, outdir, files,
                   clock, image_map, default_p1, default_p2, outcomes,
                   players_info, max_tries>>

\* A run of main with a seed on its command line, and a red proportion
\* between 1/Den and one half.
InitTwice ==
    /\ InitMain
    /\ seed # "None"
    /\ red_prop \in 1..(Den \div 2)

NextTwice == NextMain \/ RunAgain

SpecTwice == InitTwice /\ [][NextTwice]_vars

-----------------------------------------------------------------------------
(* generate_outcomes.py: build_outcomes.                                   *)

\* The choices are 1..MaxChoice (range(1, 10)), and a pair of choices
\* succeeds up to the sum MaxSum.
MaxChoice == 9
MaxSum == 10
Choices == 1..MaxChoice

\* default_p1 and default_p2 range over 0..MaxDefault
MaxDefault == 2

\* The URL of the history image of the choices (x, y), as load_image_map
\* harvests it: PAIR_RE finds P1_x_P2_y.png in it.
ImageUrl(x, y) ==
    "https://img/P1_" \o Digit(x) \o "_P2_" \o Digit(y) \o ".png"

\* The image maps explored: the full one, and the ones that lack one pair.
FullImageMap == [ p \in Choices \X Choices |-> ImageUrl(p[1], p[2]) ]
ImageMaps ==
    {FullImageMap}
      \cup { [ p \in (Choices \X Choices) \ {q} |-> FullImageMap[p] ] :
               q \in Choices \X Choices }

\* Lines 75-81: the pairs whose image, or whose swapped image, is missing.
MissingImages(im) ==
    { p \in Choices \X Choices : p \notin DOMAIN im }
      \cup { <<p[2], p[1]>> : p \in { q \in Choices \X Choices :
                                          <<q[2], q[1]>> \notin DOMAIN im } }

\* Success only below the sum MaxSum.
SuccessBelow(x, y) == x + y < MaxSum

\* Line 96: success = (x + y) <= 10.
Success(x, y) == x + y <= MaxSum

\* Lines 98-118: the payload of the choices (x, y).
Payload(x, y, im, d1, d2) ==
    [ feedback |->
        [ text |-> IF Success(x, y)
                   THEN "Success! One player chose " \o Digit(x)
                          \o " and the other " \o Digit(y) \o "."
                   ELSE "Coordination Failed. One player chose " \o Digit(x)
                          \o " and the other " \o Digit(y)
                          \o ". Players get their default points.",
          pointsOne |-> IF Success(x, y) THEN x ELSE d1,
          pointsTwo |-> IF Success(x, y) THEN y ELSE d2,
          historyImage1 |-> im[<<x, y>>],
          historyImage2 |-> im[<<y, x>>] ] ]

\* Line 121: key_a.
KeyA(x, y) == "P1_" \o Digit(x) \o "_P2_" \o Digit(y)

\* The second key with the choices in the order of the first.
KeyBUnswapped(x, y) == "P2_" \o Digit(x) \o "_P1_" \o Digit(y)

\* Line 122: key_b.
KeyB(x, y) == "P2_" \o Digit(y) \o "_P1_" \o Digit(x)

\* Lines 92-126: out after the two loops.  Every pair (x, y), x in the
\* outer loop and y in the inner one, assigns its payload to its two keys;
\* a key holds what the last pair that assigns it wrote.
build_outcomes(im, d1, d2) ==
    LET pairs == Choices \X Choices
        keys == { KeyA(p[1], p[2]) : p \in pairs }
                  \cup { KeyB(p[1], p[2]) : p \in pairs }
        writers(k) == { p \in pairs :
                          KeyA(p[1], p[2]) = k \/ KeyB(p[1], p[2]) = k }
        later(p, q) == p[1] > q[1] \/ (p[1] = q[1] /\ p[2] >= q[2])
        last(k) == CHOOSE p \in writers(k) : \A q \in writers(k) : later(p, q)
    IN  [ k \in keys |-> Payload(last(k)[1], last(k)[2], im, d1, d2) ]

\* Lines 66-126: a call of build_outcomes: it raises when an image is
\* missing, and returns out otherwise.
BuildOutcomes ==
    /\ pc = "outcomes_enter"
    /\ IF MissingImages(image_map) # {}
       THEN /\ pc' = AfterRaise
            /\ err' = "missing_images"
            /\ outcomes' = outcomes
       ELSE /\ pc' = "returned"
            /\ err' = err
            /\ outcomes' = Some(build_outcomes(image_map, default_p1,
                                               default_p2))
    /\ UNCHANGED <<entry, err_ids, player_ids, rounds, block_size, red_prop,
                   seed, team_map, layouts_override, layouts, stream, rng,
                   created_at, rounds_obj, prev_sig, current_block_pairs, r,
                   calls, result, players_input, outdir, files, clock,
                   first_run, image_map, default_p1, default_p2, players_info,
                   players_output, max_tries>>

\* A call of build_outcomes about to start.
InitOutcomes ==
    /\ pc = "outcomes_enter"
    /\ entry = "outcomes"
    /\ err = ""
    /\ err_ids = {}
    /\ player_ids = <<>>
    /\ rounds = 0
    /\ block_size = 0
    /\ red_prop = 0
    /\ seed = "None"
    /\ team_map = << >>
    /\ layouts_override = None
    /\ layouts = build_default_layouts
    /\ stream = <<>>
    /\ rng = 0
    /\ created_at = 0
    /\ rounds_obj = <<>>
    /\ prev_sig = None
    /\ current_block_pairs = <<>>
    /\ r = 0
    /\ calls = <<>>
    /\ result = None
    /\ players_input = <<>>
    /\ outdir = FALSE
    /\ files = {}
    /\ clock = 0
    /\ first_run = None
    /\ image_map \in ImageMaps
    /\ default_p1 \in 0..MaxDefault
    /\ default_p2 \in 0..MaxDefault
    /\ outcomes = None
    /\ players_info = << >>
    /\ players_output = None
    /\ max_tries = DefaultMaxTries

NextOutcomes == BuildOutcomes

SpecOutcomes == InitOutcomes /\ [][NextOutcomes]_vars

-----------------------------------------------------------------------------
(* Properties of the schedule.                                             *)

\* The set of unordered pairs of round k of the schedule built so far.
RoundSig(k) ==
    { {rounds_obj[k].pairs[i].player1Id, rounds_obj[k].pairs[i].player2Id} :
        i \in DOMAIN rounds_obj[k].pairs }

\* The block of round k: ceil(k / block_size).
BlockOf(k) == (k + block_size - 1) \div block_size

\* The duo the matching produced for pair i of round k, in its order.
Matched(k, i) == calls[BlockOf(k)].pairs[i]

\* The layout category of a set of teams.
Category(teams) ==
    IF teams = {"red"} THEN "red_red"
    ELSE IF teams = {"blue"} THEN "blue_blue"
    ELSE "red_blue"

\* C1: any two rounds of the same block have the same set of unordered
\* pairs, and the set changes from one round to the next only at a round r
\* with (r-1) mod block_size = 0.
C1_BlockInvariance ==
    /\ \A r1, r2 \in DOMAIN rounds_obj :
          BlockOf(r1) = BlockOf(r2) => RoundSig(r1) = RoundSig(r2)
    /\ \A k \in DOMAIN rounds_obj :
          (k > 1 /\ RoundSig(k) # RoundSig(k - 1)) => (k - 1) % block_size = 0

\* A finished schedule of 3 rounds in blocks of 2: rounds 1 and 2 agree and
\* round 3, the start of the second block, has another pair set.
C1_Witness ==
    /\ pc = "returned"
    /\ rounds = 3
    /\ block_size = 2
    /\ Len(rounds_obj) = 3
    /\ RoundSig(1) = RoundSig(2)
    /\ RoundSig(1) # {}
    /\ RoundSig(3) # RoundSig(2)

\* C2: in every pair of every round whose two participants are on
\* different teams, player1Id is red and player2Id is blue.
C2_RedFirst ==
    \A k \in DOMAIN rounds_obj :
      \A i \in DOMAIN rounds_obj[k].pairs :
        LET rec == rounds_obj[k].pairs[i]
        IN  team_map[rec.player1Id] # team_map[rec.player2Id]
              => /\ team_map[rec.player1Id] = "red"
                 /\ team_map[rec.player2Id] = "blue"

\* A pair the matching produced as (blue, red) was emitted with the two
\* participants exchanged.
C2_Witness ==
    \E k \in DOMAIN rounds_obj :
      \E i \in DOMAIN rounds_obj[k].pairs :
        /\ team_map[Matched(k, i)[1]] = "blue"
        /\ team_map[Matched(k, i)[2]] = "red"
        /\ rounds_obj[k].pairs[i].player1Id = Matched(k, i)[2]
        /\ rounds_obj[k].pairs[i].player2Id = Matched(k, i)[1]

\* C3: the layout chosen for a pair is the table's entry for the category
\* of the unordered pair of teams (red_red, blue_blue or red_blue), and it
\* is the same with the two participants exchanged.
C3_CategoryByTeams ==
    \A k \in DOMAIN rounds_obj :
      \A i \in DOMAIN rounds_obj[k].pairs :
        LET a == Matched(k, i)[1]
            b == Matched(k, i)[2]
            base == layouts[Category({team_map[a], team_map[b]})].layout_id
        IN  /\ PickBaseLayoutAndPositions(a, b, team_map, layouts)[1] = base
            /\ PickBaseLayoutAndPositions(b, a, team_map, layouts)[1] = base
            /\ rounds_obj[k].pairs[i].layoutId \in
                  { base \o "_1", base \o "_2" }

\* One round holds a pair of two blue participants and a pair the matching
\* produced as (blue, red), both with the layout of their category.
C3_Witness ==
    /\ layouts = build_default_layouts
    /\ \E k \in DOMAIN rounds_obj :
         \E i, j \in DOMAIN rounds_obj[k].pairs :
           /\ team_map[Matched(k, i)[1]] = "blue"
           /\ team_map[Matched(k, i)[2]] = "red"
           /\ rounds_obj[k].pairs[i].layoutId = "red_blue_1"
           /\ team_map[Matched(k, j)[1]] = "blue"
           /\ team_map[Matched(k, j)[2]] = "blue"
           /\ rounds_obj[k].pairs[j].layoutId = "blue_blue_1"

\* The six layout ids of the default table.
DefaultLayoutIds ==
    { "red_red_1", "red_red_2", "red_blue_1", "red_blue_2",
      "blue_blue_1", "blue_blue_2" }

\* C4: in round k every pair's layoutId is the base layout id followed by
\* _1 when k is odd and by _2 when k is even, and with the default table
\* it is one of the six ids red_red_1 .. blue_blue_2.
C4_SuffixByParity ==
    \A k \in DOMAIN rounds_obj :
      \A i \in DOMAIN rounds_obj[k].pairs :
        LET rec == rounds_obj[k].pairs[i]
            base == PickBaseLayoutAndPositions(
                        Matched(k, i)[1], Matched(k, i)[2], team_map, layouts)[1]
        IN  /\ rec.layoutId = base \o (IF k % 2 = 1 THEN "_1" ELSE "_2")
            /\ layouts = build_default_layouts
                  => /\ rec.layoutId \in DefaultLayoutIds
                     /\ k % 2 = 1 => rec.layoutId \in
                            {"red_red_1", "red_blue_1", "blue_blue_1"}
                     /\ k % 2 = 0 => rec.layoutId \in
                            {"red_red_2", "red_blue_2", "blue_blue_2"}

\* A schedule whose rounds 1 and 2 hold the same two pairs, with the
\* suffix 1 in round 1 and 2 in round 2.
C4_Witness ==
    /\ Len(rounds_obj) >= 2
    /\ Len(rounds_obj[1].pairs) = 2
    /\ rounds_obj[1].pairs[1].layoutId = "red_red_1"
    /\ rounds_obj[2].pairs[1].layoutId = "red_red_2"
    /\ rounds_obj[1].pairs[2].layoutId = "red_blue_1"
    /\ rounds_obj[2].pairs[2].layoutId = "red_blue_2"

\* C5: with the default layout table every pair's layoutId is the bare
\* category name of the pair's teams (red_red, red_blue or blue_blue), and
\* position1 = 1 and position2 = 2, as the repository's test asserts.
C5_BareLayoutIds ==
    layouts_override = None =>
      \A k \in DOMAIN rounds_obj :
        \A i \in DOMAIN rounds_obj[k].pairs :
          LET rec == rounds_obj[k].pairs[i]
          IN  /\ rec.layoutId \in {"red_red", "red_blue", "blue_blue"}
              /\ rec.layoutId =
                    Category({team_map[rec.player1Id], team_map[rec.player2Id]})
              /\ rec.position1 = 1
              /\ rec.position2 = 2

\* The participants of round k of the schedule built so far.
Paired(k) == UNION RoundSig(k)

\* The participants of the roster left out of round k.
Unpaired(k) == Range(player_ids) \ Paired(k)

\* The list ids has no entry twice.
IsUnique(ids) == \A i, j \in DOMAIN ids : ids[i] = ids[j] => i = j

\* C6: for a roster of N unique participants every round has floor(N/2)
\* pairs, each of two distinct participants of the roster, no participant
\* is in two pairs of a round, and when N is odd exactly one participant
\* is unpaired, the same one in every round of a block.
C6_PerfectMatching ==
    IsUnique(player_ids) =>
      \A k \in DOMAIN rounds_obj :
        LET ps == rounds_obj[k].pairs
            n == Len(player_ids)
        IN  /\ Len(ps) = n \div 2
            /\ \A i \in DOMAIN ps :
                  /\ ps[i].player1Id # ps[i].player2Id
                  /\ {ps[i].player1Id, ps[i].player2Id} \subseteq Range(player_ids)
            /\ \A i, j \in DOMAIN ps :
                  i # j => {ps[i].player1Id, ps[i].player2Id}
                             \cap {ps[j].player1Id, ps[j].player2Id} = {}
            /\ n % 2 = 0 => Unpaired(k) = {}
            /\ n % 2 = 1 => Cardinality(Unpaired(k)) = 1
            /\ \A k2 \in DOMAIN rounds_obj :
                  BlockOf(k2) = BlockOf(k) => Unpaired(k2) = Unpaired(k)

\* A finished schedule for a roster of 3 in blocks of 2: one pair per
\* round, the same participant left out of rounds 1 and 2, another one
\* left out of round 3.
C6_Witness ==
    /\ pc = "returned"
    /\ Len(player_ids) = 3
    /\ block_size = 2
    /\ Len(rounds_obj) = 3
    /\ Len(rounds_obj[1].pairs) = 1
    /\ Cardinality(Unpaired(1)) = 1
    /\ Unpaired(2) = Unpaired(1)
    /\ Unpaired(3) # Unpaired(1)

Abs(x) == IF x < 0 THEN 0 - x ELSE x

\* The participants team_map puts on team t.
OnTeam(t) == { p \in DOMAIN team_map : team_map[p] = t }

\* C7: for a roster of n unique identifiers and red_prop in [0, 1],
\* assign_teams returns a map whose keys are the roster, whose values are
\* red or blue, and whose number of red participants is in 0..n and is an
\* integer nearest to red_prop * n.
C7_TeamSizes ==
    (entry = "teams" /\ pc = "returned" /\ IsUnique(player_ids)) =>
      LET n == Len(player_ids)
          n_red == Cardinality(OnTeam("red"))
          n_blue == Cardinality(OnTeam("blue"))
      IN  /\ DOMAIN team_map = Range(player_ids)
          /\ \A p \in DOMAIN team_map : team_map[p] \in Team
          /\ n_red \in 0..n
          /\ n_red + n_blue = n
          /\ 2 * Abs(Den * n_red - red_prop * n) <= Den

\* assign_teams returned for a roster of 3 and a red_prop of 1/Den with
\* 3/Den above one half: one red participant and two blue ones.
C7_Witness ==
    /\ entry = "teams"
    /\ pc = "returned"
    /\ Len(player_ids) = 3
    /\ red_prop = 1
    /\ 2 * 3 > Den
    /\ Cardinality(OnTeam("red")) = 1
    /\ Cardinality(OnTeam("blue")) = 2

\* The number of distinct pair sets the roster ids can be matched into.
NumMatchings(ids) ==
    Cardinality({ PairsSignature(MakeRandomMatching(ids, p)) :
                    p \in Perms(Len(ids)) })

\* Round k is the first round of a block other than the first.
LaterBlockStart(k) == k > 1 /\ BlockOf(k) # BlockOf(k - 1)

\* C8 as stated: the pair sets of two consecutive blocks differ whenever
\* the roster admits at least 3 distinct matchings.
C8_ConsecutiveBlocksDiffer ==
    \A k \in DOMAIN rounds_obj :
      (LaterBlockStart(k) /\ NumMatchings(player_ids) >= 3)
        => RoundSig(k) # RoundSig(k - 1)

\* Every shuffle drawn for the block of round k gave the pair set of the
\* block before it, and max_tries of them were drawn.
Exhausted(k) ==
    LET c == calls[BlockOf(k)]
    IN  /\ Len(c.draws) = DefaultMaxTries
        /\ \A j \in DOMAIN c.draws :
              PairsSignature(MakeRandomMatching(player_ids, c.draws[j]))
                = RoundSig(k - 1)

\* C8 as amended: the pair sets of two consecutive blocks differ unless all
\* max_tries shuffles drawn for the later block gave the pair set of the
\* earlier one, and then the later block repeats it.
C8_DifferUnlessExhausted ==
    \A k \in DOMAIN rounds_obj :
      LaterBlockStart(k) =>
        (RoundSig(k) = RoundSig(k - 1) <=> Exhausted(k))

\* A roster with 3 matchings whose second block differs from the first
\* after a first shuffle that repeated the first block's pair set.
C8_Witness ==
    /\ NumMatchings(player_ids) >= 3
    /\ Len(calls) >= 2
    /\ Len(rounds_obj) >= calls[2].round
    /\ Len(calls[2].draws) = 2
    /\ PairsSignature(MakeRandomMatching(player_ids, calls[2].draws[1]))
         = RoundSig(calls[2].round - 1)
    /\ RoundSig(calls[2].round) # RoundSig(calls[2].round - 1)

\* The call of make_block_matching logged as c, made with max_tries = mt,
\* did what the claim says of a call that has mt attempts: with no
\* previous signature one shuffle was drawn and its matching returned;
\* with a previous signature at most mt shuffles were drawn, every one
\* before the last repeats the previous signature, the matching returned
\* is that of the last shuffle drawn, and it repeats the previous
\* signature only when mt shuffles were drawn.
WithinTries(c, mt) ==
    LET n == Len(c.draws)
        sig(i) == PairsSignature(MakeRandomMatching(player_ids, c.draws[i]))
    IN  /\ n >= 1
        /\ c.pairs = MakeRandomMatching(player_ids, c.draws[n])
        /\ Len(c.pairs) = Len(player_ids) \div 2
        /\ c.prev = None => n = 1
        /\ c.prev # None =>
              /\ n <= mt
              /\ \A i \in 1..(n - 1) : sig(i) = c.prev[1]
              /\ sig(n) = c.prev[1] => n = mt

\* C9 as stated: a call of make_block_matching ends with a matching; with
\* no previous signature it is the first shuffle's matching; with a
\* previous signature at most max_tries shuffles are drawn, the first
\* matching that differs from the previous one is returned, and if none
\* of the max_tries attempts differs the last attempted one is returned.
C9_AtMostMaxTries ==
    /\ pc = "returned" => Len(calls) = 1
    /\ \A j \in DOMAIN calls : WithinTries(calls[j], max_tries)

\* C9 as amended: the same for every max_tries of at least 1; with a
\* max_tries below 1 and a previous signature exactly one shuffle is drawn
\* and its matching is returned, whether it repeats the previous signature
\* or not.
C9_AtMostMaxTriesFromOne ==
    /\ pc = "returned" => Len(calls) = 1
    /\ \A j \in DOMAIN calls :
          IF max_tries >= 1 \/ calls[j].prev = None
          THEN WithinTries(calls[j], max_tries)
          ELSE /\ Len(calls[j].draws) = 1
               /\ calls[j].pairs
                    = MakeRandomMatching(player_ids, calls[j].draws[1])

\* A call with a previous signature and a max_tries of at least 3 drew
\* max_tries shuffles that all repeated the previous signature, and
\* returned the matching of the last one, which is the matching of no
\* earlier attempt.
C9_Witness ==
    /\ entry = "block" /\ pc = "returned"
    /\ max_tries >= 3 /\ max_tries <= MaxTries
    /\ calls[1].prev # None
    /\ Len(calls[1].draws) = max_tries
    /\ PairsSignature(calls[1].pairs) = calls[1].prev[1]
    /\ \A i \in 1..(max_tries - 1) :
          calls[1].pairs # MakeRandomMatching(player_ids, calls[1].draws[i])

\* C10: a run that ends in an error has written no output file and has
\* drawn nothing from a random source.
C10_FailFast ==
    pc = "failed" => (files = {} /\ rng = 0)

\* The number of shuffles drawn by the make_block_matching calls cs.
RECURSIVE DrawsIn(_)
DrawsIn(cs) ==
    IF cs = <<>> THEN 0
    ELSE Len(cs[Len(cs)].draws) + DrawsIn(SubSeq(cs, 1, Len(cs) - 1))

\* C11: a run of main draws from one random source, never made again: the
\* source the block matchings draw from has already delivered the
\* team-assignment shuffle, so it has delivered one draw more than the
\* block matchings have read.
C11_OneSource ==
    (entry = "main" /\ calls # <<>>) => rng = 1 + DrawsIn(calls)

\* The participants of the roster without a team, and the keys of the team
\* map that are not in the roster.
MissingIds == Range(player_ids) \ DOMAIN team_map
UnknownIds == DOMAIN team_map \ Range(player_ids)

\* The other arguments of the call pass the validations that come first.
OtherArgsValid == rounds >= 1 /\ block_size >= 1 /\ Len(player_ids) >= 2

\* C13 as claimed: when the keys of team_map are not the roster's
\* identifiers, the call fails with no schedule and the error names the
\* missing identifiers and the unexpected ones (here with the other
\* arguments valid, so that this is the validation that fails).
C13_NamesMissingAndUnknown ==
    (entry = "api" /\ pc # "gen_enter" /\ OtherArgsValid
       /\ Range(player_ids) # DOMAIN team_map)
    => (pc = "failed" /\ result = None /\ rounds_obj = <<>>
          /\ err_ids = MissingIds \cup UnknownIds)

\* C13: when the keys of team_map are not the roster's identifiers, the call
\* fails with no schedule; it goes on only when the two sets are equal;
\* when the other arguments are valid the error is the team-map one, and it
\* names the missing identifiers when there are any, and the unexpected
\* identifiers only when none is missing.
C13_KeySetsChecked ==
    (entry = "api" /\ pc # "gen_enter") =>
      /\ Range(player_ids) # DOMAIN team_map
           => (pc = "failed" /\ result = None /\ rounds_obj = <<>>)
      /\ pc # "failed" => Range(player_ids) = DOMAIN team_map
      /\ (OtherArgsValid /\ Range(player_ids) # DOMAIN team_map)
           => /\ err \in {"team_map_missing", "team_map_unknown"}
              /\ err_ids # {}
              /\ err_ids = IF MissingIds # {} THEN MissingIds
                            ELSE UnknownIds

\* A call rejected for a team map that both lacks a participant and has an
\* unknown key: the error names the missing one only.
C13_Witness ==
    /\ entry = "api" /\ pc = "failed" /\ OtherArgsValid
    /\ MissingIds # {} /\ UnknownIds # {}
    /\ err = "team_map_missing" /\ err_ids = MissingIds

\* C14: a roster with fewer than 2 unique participants is rejected, also
\* when the list has 2 entries or more that are all the same identifier, so
\* no pair of the schedule has player1Id = player2Id.
C14_DistinctPartners ==
    (entry = "api" /\ pc # "gen_enter") =>
      /\ Cardinality(Range(player_ids)) < 2 => pc = "failed"
      /\ \A k \in DOMAIN rounds_obj : \A i \in DOMAIN rounds_obj[k].pairs :
            rounds_obj[k].pairs[i].player1Id # rounds_obj[k].pairs[i].player2Id

\* C18: for a pair whose two participants are on the same team, the record
\* has the id and the two seat positions of the layout table's entry for
\* that team (red_red or blue_blue) and keeps the participants in the
\* matching's order, whichever layout table is in use.
C18_SameTeamFromTable ==
    \A k \in DOMAIN rounds_obj : \A i \in DOMAIN rounds_obj[k].pairs :
      LET rec == rounds_obj[k].pairs[i]
          a == Matched(k, i)[1]
          b == Matched(k, i)[2]
          pick == PickBaseLayoutAndPositions(a, b, team_map, layouts)
          entryOf == IF team_map[a] = "red" THEN layouts["red_red"]
                     ELSE layouts["blue_blue"]
      IN  team_map[a] = team_map[b] =>
            /\ pick = <<entryOf.layout_id, a, b, entryOf.position_red,
                        entryOf.position_blue>>
            /\ rec.player1Id = a /\ rec.player2Id = b
            /\ rec.position1 = entryOf.position_red
            /\ rec.position2 = entryOf.position_blue

\* The schedule without its timestamp fields: for every round, every pair's
\* key, layout, participants, positions and status.
Untimed(pairing) ==
    [ k \in DOMAIN pairing.rounds |->
        [ i \in DOMAIN pairing.rounds[k].pairs |->
            LET rec == pairing.rounds[k].pairs[i]
            IN  [ key |-> rec.key, layoutId |-> rec.layoutId,
                  player1Id |-> rec.player1Id, player2Id |-> rec.player2Id,
                  position1 |-> rec.position1, position2 |-> rec.position2,
                  status |-> rec.status ] ] ]

\* C12: two runs with the same roster order, seed, red proportion, rounds
\* and block_size end with the same team assignment and the same schedule
\* (rounds, pair keys, participants, layouts and positions), the timestamp
\* fields apart.
C12_SameSeedSameOutput ==
    (first_run # None /\ pc = "done") =>
      /\ team_map = first_run[1].team_map
      /\ Untimed(result[1]) = Untimed(first_run[1].pairing)

\* A second seeded run has ended with a team of each colour and a schedule
\* of two blocks, and its timestamps are not the first run's.
C12_Witness ==
    /\ first_run # None /\ pc = "done" /\ seed # "None"
    /\ Len(calls) >= 2
    /\ \E p, q \in DOMAIN team_map : team_map[p] # team_map[q]
    /\ result[1].lastUpdated # first_run[1].pairing.lastUpdated
    /\ result[1] # first_run[1].pairing

\* C15: for every pair of choices (x, y) of 1..9, the outcome built has
\* pointsOne = x and pointsTwo = y when x + y <= 10, and pointsOne =
\* default_p1 and pointsTwo = default_p2 when x + y > 10.
C15_PointsBySum ==
    outcomes # None =>
      \A x, y \in 1..9 :
        LET fb == outcomes[1]["P1_" \o Digit(x) \o "_P2_" \o Digit(y)].feedback
        IN  /\ x + y <= 10 => (fb.pointsOne = x /\ fb.pointsTwo = y)
            /\ x + y > 10
                 => (fb.pointsOne = default_p1 /\ fb.pointsTwo = default_p2)

\* Outcomes built with two different defaults: the choices (1, 9) keep
\* their points and the choices (2, 9) get the defaults.
C15_Witness ==
    /\ outcomes # None
    /\ default_p1 = 2 /\ default_p2 = 0
    /\ outcomes[1]["P1_1_P2_9"].feedback.pointsOne = 1
    /\ outcomes[1]["P1_1_P2_9"].feedback.pointsTwo = 9
    /\ outcomes[1]["P1_2_P2_9"].feedback.pointsOne = 2
    /\ outcomes[1]["P1_2_P2_9"].feedback.pointsTwo = 0

\* C16: when build_outcomes succeeds, for every (x, y) of 1..9 x 1..9 the
\* keys P1_x_P2_y and P2_y_P1_x both exist and hold the same payload, whose
\* historyImage1 is the image of (x, y) and whose historyImage2 is the
\* image of (y, x); the result has exactly 162 keys.
C16_RedundantKeys ==
    outcomes # None =>
      /\ Cardinality(DOMAIN outcomes[1]) = 162
      /\ \A x, y \in 1..9 :
           LET ka == "P1_" \o Digit(x) \o "_P2_" \o Digit(y)
               kb == "P2_" \o Digit(y) \o "_P1_" \o Digit(x)
           IN  /\ ka \in DOMAIN outcomes[1]
               /\ kb \in DOMAIN outcomes[1]
               /\ outcomes[1][ka] = outcomes[1][kb]
               /\ outcomes[1][ka].feedback.historyImage1 = image_map[<<x, y>>]
               /\ outcomes[1][ka].feedback.historyImage2 = image_map[<<y, x>>]

\* Outcomes were built, and the key P2_7_P1_3 holds the payload of the
\* choices (3, 7), with the image of (3, 7) first and that of (7, 3) second.
C16_Witness ==
    /\ outcomes # None
    /\ outcomes[1]["P2_7_P1_3"].feedback.pointsOne = 3
    /\ outcomes[1]["P2_7_P1_3"].feedback.historyImage1
         = "https://img/P1_3_P2_7.png"
    /\ outcomes[1]["P2_7_P1_3"].feedback.historyImage2
         = "https://img/P1_7_P2_3.png"

\* The value of the group entry of a player object, when it is a dict.
GroupFields(info) ==
    IF "group" \in DOMAIN info /\ info["group"].kind = "dict"
    THEN info["group"].d ELSE EmptyDict

\* C17: write_players_output returns for every player of the input a copy
\* that differs from the input player in its group entry only (allowedRole
\* the empty string, name and color those of the assigned team, the other
\* group fields kept); every other field of the player is unchanged, the
\* input is not modified, and a player with no entry in team_map makes the
\* call fail.
C17_OnlyGroupChanged ==
    /\ [](entry = "players" =>
            /\ (pc # "players_enter"
                   /\ \E pid \in DOMAIN players_info :
                        pid \notin DOMAIN team_map)
                 => (pc = "failed" /\ players_output = None)
            /\ players_output # None =>
                 /\ DOMAIN players_output[1] = DOMAIN players_info
                 /\ \A pid \in DOMAIN players_info :
                      LET old == players_info[pid]
                          new == players_output[1][pid]
                          g == new["group"].d
                      IN  /\ DOMAIN new = DOMAIN old \cup {"group"}
                          /\ \A k \in DOMAIN old \ {"group"} :
                               new[k] = old[k]
                          /\ new["group"].kind = "dict"
                          /\ DOMAIN g = DOMAIN GroupFields(old)
                               \cup {"allowedRole", "name", "color"}
                          /\ g["allowedRole"] = ""
                          /\ g["name"] = IF team_map[pid] = "red"
                                         THEN "Group A" ELSE "Group B"
                          /\ g["color"] = team_map[pid]
                          /\ \A k \in DOMAIN GroupFields(old)
                                       \ {"allowedRole", "name", "color"} :
                               g[k] = GroupFields(old)[k])
    /\ [][players_info' = players_info]_vars

\* A call returned for two players on different teams, one whose group had
\* a fourth field and one whose group was not a dict.
C17_Witness ==
    /\ entry = "players" /\ pc = "returned" /\ players_output # None
    /\ DOMAIN players_info = {"A", "B"}
    /\ team_map["A"] = "red" /\ team_map["B"] = "blue"
    /\ GroupFields(players_info["A"]) = OldGroup
    /\ players_output[1]["A"]["group"].d["quota"] = "3"
    /\ players_output[1]["A"]["group"].d["allowedRole"] = ""
    /\ players_output[1]["A"]["group"].d["name"] = "Group A"
    /\ "group" \in DOMAIN players_info["B"]
    /\ players_info["B"]["group"] = StrVal("solo")
    /\ players_output[1]["B"]["group"].d["color"] = "blue"

====
